---------------------------- MODULE Spec2Model ----------------------------
(* Model of src/workers.js: the check scheduler (gatherAllChecks, loop),   *)
(* the probe executor (performCheck), the outcome processor                *)
(* (processCheckOutcome, log) and the log rotator (rotateLogs).            *)
(* The collaborators _checkCtrl and _logs are asynchronous: a call stays   *)
(* pending until the event loop runs its callback with err or no err.      *)
EXTENDS Integers, Sequences, FiniteSets, TLC

\* ------------------------------------------------------------------ bounds
MaxCycles == 2
MaxRotations == 2
MaxEvents == 2
MaxCalls == 2

\* ------------------------------------------------------- value domains
Checks == {"c1", "c2"}
Streams == {"c1", "c2"}
NoCode == 0
ResponseCodes == {200, 500}
ErrNone == "none"
\* the Error objects the transport hands to the 'error' listener (line 61):
\* a refused connection, a socket hang up, an Error without own properties
TransportErrors == {"ECONNREFUSED", "ECONNRESET", "Error"}
\* outcome.error other than false: {error: true, value: e} for a transport
\* error e (line 63), {error: true, value: 'timeout'} (line 70)
ErrKinds == TransportErrors \cup {"timeout"}
\* the endpoint the refused connection was made to
ProbeAddress == "127.0.0.1"
ProbePort == 9
ExcNone == "none"
Excs == {"ReferenceError", "TypeError"}

VARIABLES
  registry,      \* the check store behind _checkCtrl: id -> persisted check
  getAllPending, \* <<cycle, id>>: deliveries of _checkCtrl.getAll's callback still to run
  probes,        \* <<cycle, id>> -> one performCheck invocation (closure state and its calls)
  logs,          \* active log streams behind _logs: logId -> sequence of log strings
  archives,      \* compressed archives behind _logs: set of <<logId, time, content>>
  rot,           \* rotation cycle -> state of that rotateLogs invocation's calls
  uncaught,      \* exception kind -> number of callbacks that ended with it uncaught
  alive,         \* FALSE once an uncaught exception has terminated the process
  cycle,         \* number of gatherAllChecks invocations so far
  rcycle,        \* number of rotateLogs invocations so far
  now            \* Date.now()

vars == <<registry, getAllPending, probes, logs, archives, rot, uncaught, alive,
          cycle, rcycle, now>>

\* --------------------------------------------------------- pure helpers
\* Array.prototype.indexOf, 0-based, -1 when absent
RECURSIVE IndexFrom(_, _, _)
IndexFrom(arr, x, i) ==
  IF i > Len(arr) THEN -1
  ELSE IF arr[i] = x THEN i - 1
  ELSE IndexFrom(arr, x, i + 1)

indexOf(arr, x) == IndexFrom(arr, x, 1)

\* JS truthiness of a response code / timestamp (false, undefined and 0 are falsy)
Truthy(n) == n # 0

\* String.prototype.replace(pat, '') on a name held as a sequence of tokens:
\* removes the first occurrence only
RECURSIVE replace(_, _)
replace(name, pat) ==
  IF name = <<>> THEN <<>>
  ELSE IF Head(name) = pat THEN Tail(name)
  ELSE <<Head(name)>> \o replace(Tail(name), pat)

\* the file name _logs.list reports for a stream, with or without extension
FileName(s, ext) == IF ext THEN <<s, ".log">> ELSE <<s>>

\* the own enumerable properties of a transport error, the only members of
\* it JSON.stringify keeps (message and stack are not enumerable)
OwnEnumerable(e) ==
  CASE e = "ECONNREFUSED" ->
         [errno |-> -111, code |-> "ECONNREFUSED", syscall |-> "connect",
          address |-> ProbeAddress, port |-> ProbePort]
    [] e = "ECONNRESET" -> [code |-> "ECONNRESET"]
    [] e = "Error" -> <<>>

\* the JSON of checkOutcome.error: false, or the wrapper object of lines 63, 70
\* with its error tag and its value
ErrorJSON(error) ==
  IF error = ErrNone THEN ErrNone
  ELSE [error |-> TRUE,
        value |-> IF error = "timeout" THEN "timeout" ELSE OwnEnumerable(error)]

\* the JSON of the check: a member that is undefined (a state or a
\* lastChecked not set yet) is dropped
CheckJSON(check) ==
  LET undef == (IF check.state = "unset" THEN {"state"} ELSE {}) \cup
               (IF check.lastChecked = 0 THEN {"lastChecked"} ELSE {})
  IN [k \in DOMAIN check \ undef |-> check[k]]

\* JSON.stringify(logData): the members in the order of lines 94-98, the alert
\* member dropped when alertWarranted is undefined
stringify(logData) ==
  LET check == CheckJSON(logData.check)
      outcome == [logData.outcome EXCEPT !.error = ErrorJSON(logData.outcome.error)]
  IN IF logData.alert = <<>>
     THEN [check |-> check, outcome |-> outcome, state |-> logData.state,
           time |-> logData.time]
     ELSE [check |-> check, outcome |-> outcome, state |-> logData.state,
           alert |-> logData.alert[1], time |-> logData.time]

\* _checkCtrl.isValid
isValid(data) == data.wellFormed

\* _checkCtrl.setData: the transient in-memory copy of one evaluation
setData(data) ==
  [id |-> data.id, state |-> data.state, lastChecked |-> data.lastChecked,
   successCodes |-> data.successCodes, userPhone |-> data.userPhone]

\* line 88: up or down
ComputeState_noerr(outcome, successCodes) ==
  IF /\ Truthy(outcome.responseCode)
     /\ indexOf(successCodes, outcome.responseCode) > -1
  THEN "up" ELSE "down"

ComputeState(outcome, successCodes) ==
  IF /\ outcome.error = ErrNone
     /\ Truthy(outcome.responseCode)
     /\ indexOf(successCodes, outcome.responseCode) > -1
  THEN "up" ELSE "down"

\* line 90: the value of `lastChecked && state !== computed state`, held as a
\* sequence: <<>> is undefined (the unset lastChecked itself), else <<b>>
AlertValue_nobase(check, state) == <<check.state # state>>

AlertValue(check, state) ==
  IF Truthy(check.lastChecked) THEN <<check.state # state>> ELSE <<>>

\* truthiness of alertWarranted (line 112)
AlertWarranted(check, state) == AlertValue(check, state) = <<TRUE>>

\* The identifiers workers.log can resolve: its parameter and its locals, then
\* the bindings of the module scope (lines 7-15). Nothing else is in scope.
LogScope_bound == {"logData", "logString", "logFileName", "originalCheckData",
                   "https", "http", "_logs", "util", "debug", "_checkCtrl", "workers"}

LogScope == {"logData", "logString", "logFileName",
             "https", "http", "_logs", "util", "debug", "_checkCtrl", "workers"}

\* workers.log: the exception it ends with and the _logs.append calls it made.
\* Reading originalCheckData.id needs originalCheckData to resolve.
log(logData) ==
  IF "originalCheckData" \in LogScope
  THEN [threw |-> ExcNone,
        appends |-> <<[file |-> logData.check.id, str |-> stringify(logData),
                       status |-> "pending"]>>]
  ELSE [threw |-> "ReferenceError", appends |-> <<>>]

\* guard of lines 84-85
AlreadySent_never(outcome) == FALSE

AlreadySent(outcome) == outcome.sent

\* processCheckOutcome with the write issued before the log call
processCheckOutcome_persistFirst(check, outcome, t) ==
  IF AlreadySent(outcome)
  THEN [threw |-> ExcNone, returned |-> <<outcome>>, check |-> check, built |-> <<>>,
        appends |-> <<>>, updates |-> <<>>]
  ELSE LET state == ComputeState(outcome, check.successCodes)
           alertWarranted == AlertWarranted(check, state)
           logData == [check |-> check, outcome |-> outcome, state |-> state,
                       alert |-> AlertValue(check, state), time |-> t]
           lg == log(logData)
           newCheckData == [check EXCEPT !.state = state, !.lastChecked = t]
       IN [threw |-> lg.threw,
           returned |-> IF lg.threw # ExcNone THEN <<>> ELSE <<outcome>>,
           check |-> newCheckData, built |-> <<logData>>, appends |-> lg.appends,
           updates |-> <<[data |-> newCheckData, alert |-> alertWarranted,
                          status |-> "pending"]>>]

\* processCheckOutcome with the log record built from the updated check
processCheckOutcome_snapshotAfter(check, outcome, t) ==
  IF AlreadySent(outcome)
  THEN [threw |-> ExcNone, returned |-> <<outcome>>, check |-> check, built |-> <<>>,
        appends |-> <<>>, updates |-> <<>>]
  ELSE LET state == ComputeState(outcome, check.successCodes)
           alertWarranted == AlertWarranted(check, state)
           newCheckData == [check EXCEPT !.state = state, !.lastChecked = t]
           logData == [check |-> newCheckData, outcome |-> outcome, state |-> state,
                       alert |-> AlertValue(check, state), time |-> t]
           lg == log(logData)
       IN IF lg.threw # ExcNone
          THEN [threw |-> lg.threw, returned |-> <<>>, check |-> newCheckData,
                built |-> <<logData>>, appends |-> <<>>, updates |-> <<>>]
          ELSE [threw |-> ExcNone, returned |-> <<outcome>>, check |-> newCheckData,
                built |-> <<logData>>, appends |-> lg.appends,
                updates |-> <<[data |-> newCheckData, alert |-> alertWarranted,
                               status |-> "pending"]>>]

\* workers.processCheckOutcome at time t: what it throws, what it returns
\* (<<>> when it throws), the check object after it (mutated in place on lines 105-106), the logData it
\* built and the collaborator calls it issued.
processCheckOutcome(check, outcome, t) ==
  IF AlreadySent(outcome)
  THEN [threw |-> ExcNone, returned |-> <<outcome>>, check |-> check, built |-> <<>>,
        appends |-> <<>>, updates |-> <<>>]
  ELSE LET state == ComputeState(outcome, check.successCodes)
           alertWarranted == AlertWarranted(check, state)
           logData == [check |-> check, outcome |-> outcome, state |-> state,
                       alert |-> AlertValue(check, state), time |-> t]
           lg == log(logData)
           newCheckData == [check EXCEPT !.state = state, !.lastChecked = t]
       IN IF lg.threw # ExcNone
          THEN [threw |-> lg.threw, returned |-> <<>>, check |-> check,
                built |-> <<logData>>, appends |-> <<>>, updates |-> <<>>]
          ELSE [threw |-> ExcNone, returned |-> <<outcome>>, check |-> newCheckData,
                built |-> <<logData>>, appends |-> lg.appends,
                updates |-> <<[data |-> newCheckData, alert |-> alertWarranted,
                               status |-> "pending"]>>]

\* bindings performCheck declares with const (line 41)
ConstBindings == {"checkOutcome"}

\* an assignment statement `name = value`: the exception it ends with
Assign(name) == IF name \in ConstBindings THEN "TypeError" ELSE ExcNone

\* ------------------------------------------------------- initial state
\* what the registry may hold for a check: never evaluated, evaluated and up,
\* evaluated and down, or not properly formatted
CheckData(id, wellFormed, state, lastChecked) ==
  [id |-> id, wellFormed |-> wellFormed, state |-> state, lastChecked |-> lastChecked,
   successCodes |-> <<200, 201>>, userPhone |-> <<"phone", id>>]

Registries ==
  { [c \in Checks |-> IF c = "c1" THEN CheckData(c, TRUE, r[1], r[2])
                      ELSE CheckData(c, r[3], r[4], r[5])] :
      r \in { <<"unset", 0, FALSE, "unset", 0>>,
              <<"unset", 0, TRUE, "up", 1>>,
              <<"up", 1, FALSE, "down", 1>>,
              <<"down", 1, FALSE, "up", 1>> } }

\* the active streams found when the workers start: none, or one per check
\* with the records of earlier runs
LogStores == { <<>>, [s \in Streams |-> <<[old |-> TRUE]>>] }

NoCalls == [s \in Streams |-> "none"]

\* a rotateLogs invocation right after its _logs.list call (line 161)
NewRotation == [list |-> "pending", names |-> {}, time |-> 0,
                compress |-> NoCalls, truncate |-> NoCalls]

\* the closure of one performCheck invocation (lines 41-45) and its history
NewProbe(check) ==
  [read |-> check, check |-> check,
   outcome |-> [error |-> ErrNone, responseCode |-> NoCode, sent |-> FALSE],
   delivered |-> {}, calls |-> 0, threw |-> ExcNone, returned |-> <<>>,
   built |-> <<>>, appends |-> <<>>, updates |-> <<>>, notifs |-> <<>>]

NoUncaught == [e \in Excs |-> 0]

\* workers.init (lines 196-207) has run on registry reg and log store lg: the
\* first gatherAllChecks and the first rotateLogs have been called, both
\* timers are armed
Started(reg, lg) ==
  /\ registry = reg
  /\ logs = lg
  /\ archives = {}
  /\ cycle = 1
  /\ getAllPending = {<<1, c>> : c \in Checks}
  /\ probes = <<>>
  /\ rcycle = 1
  /\ rot = [n \in {1} |-> NewRotation]
  /\ uncaught = NoUncaught
  /\ alive = TRUE
  /\ now = 1

Init == \E reg \in Registries : \E lg \in LogStores : Started(reg, lg)

\* the check cycle is followed on an empty log store
InitChecks == \E reg \in Registries : Started(reg, <<>>)

\* the rotation cycles are followed on one registry, both checks well-formed
InitRotate ==
  \E lg \in LogStores :
    Started([c \in Checks |-> CheckData(c, TRUE, "unset", 0)], lg)

\* ------------------------------------------------------------- scheduler
\* the setInterval callback of workers.loop: workers.gatherAllChecks
Tick ==
  /\ alive
  /\ cycle < MaxCycles
  /\ cycle' = cycle + 1
  /\ now' = now + 1
  /\ getAllPending' = getAllPending \cup {<<cycle + 1, c>> : c \in Checks}
  /\ UNCHANGED <<registry, probes, logs, archives, rot, uncaught, alive, rcycle>>

\* the setInterval callback of workers.logRotationLoop: workers.rotateLogs
RotateTick ==
  /\ alive
  /\ rcycle < MaxRotations
  /\ rcycle' = rcycle + 1
  /\ now' = now + 1
  /\ rot' = [n \in 1..(rcycle + 1) |-> IF n <= rcycle THEN rot[n] ELSE NewRotation]
  /\ UNCHANGED <<registry, getAllPending, probes, logs, archives, uncaught, alive, cycle>>

\* the callback of _checkCtrl.getAll for one check (lines 20-33); performCheck
\* (lines 38-76) creates the outcome object and sends the request
GetAllCb(cyc, id, err) ==
  /\ getAllPending' = getAllPending \ {<<cyc, id>>}
  /\ probes' = IF ~err /\ isValid(registry[id])
               THEN [p \in DOMAIN probes \cup {<<cyc, id>>} |->
                       IF p = <<cyc, id>> THEN NewProbe(setData(registry[id]))
                       ELSE probes[p]]
               ELSE probes
  /\ UNCHANGED <<registry, logs, archives, rot, uncaught, alive, cycle, rcycle, now>>

\* ----------------------------------------------------------- transport
\* One of the three callbacks performCheck registers (lines 53-72) runs for
\* request p: it stores its field in the outcome object, calls
\* processCheckOutcome and assigns the result to checkOutcome.
Deliver(p, kind, outcome1) ==
  LET pr == probes[p]
      r == processCheckOutcome(pr.check, outcome1, now)
      exc == IF r.threw # ExcNone THEN r.threw ELSE Assign("checkOutcome")
  IN /\ probes' = [probes EXCEPT ![p] =
            [pr EXCEPT !.check = r.check, !.outcome = outcome1,
                       !.delivered = pr.delivered \cup {kind},
                       !.calls = pr.calls + 1,
                       !.threw = r.threw, !.returned = r.returned,
                       !.built = pr.built \o r.built,
                       !.appends = pr.appends \o r.appends,
                       !.updates = pr.updates \o r.updates]]
     /\ uncaught' = IF exc # ExcNone
                    THEN [uncaught EXCEPT ![exc] = uncaught[exc] + 1]
                    ELSE uncaught
     /\ IF exc # ExcNone THEN alive' \in BOOLEAN ELSE alive' = alive
     /\ UNCHANGED <<registry, getAllPending, logs, archives, rot, cycle, rcycle, now>>

\* number of transport events delivered so far to the requests in P
RECURSIVE EventsDelivered(_)
EventsDelivered(P) ==
  IF P = {} THEN 0
  ELSE LET p == CHOOSE q \in P : TRUE
       IN Cardinality(probes[p].delivered) + EventsDelivered(P \ {p})

\* the transport signals each kind of event at most once per request
CanDeliver(p, kind) ==
  /\ alive
  /\ kind \notin probes[p].delivered
  /\ EventsDelivered(DOMAIN probes) < MaxEvents

\* lines 53-58
ResponseCallback ==
  \E p \in DOMAIN probes : \E code \in ResponseCodes :
    /\ CanDeliver(p, "response")
    /\ Deliver(p, "response", [probes[p].outcome EXCEPT !.responseCode = code])

\* the Error a failing request to the endpoint of check id ends with: the
\* endpoint of c1 refuses connections, the others hang up
EndpointError(id) == IF id = "c1" THEN "ECONNREFUSED" ELSE "ECONNRESET"

\* lines 61-65
ErrorCallback ==
  \E p \in DOMAIN probes :
    /\ CanDeliver(p, "error")
    /\ Deliver(p, "error", [probes[p].outcome EXCEPT !.error = EndpointError(p[2])])

\* lines 68-72
TimeoutCallback ==
  \E p \in DOMAIN probes :
    /\ CanDeliver(p, "timeout")
    /\ Deliver(p, "timeout", [probes[p].outcome EXCEPT !.error = "timeout"])

\* ------------------------------------------------ _checkCtrl callbacks
Done(err) == IF err THEN "failed" ELSE "ok"

\* the callback of _checkCtrl.update (lines 109-124) for the i-th write of p
UpdateCb(p, i, err) ==
  LET pr == probes[p]
      u == pr.updates[i]
      msg == [to |-> pr.check.userPhone, check |-> pr.check.id,
              state |-> pr.check.state, status |-> "pending"]
  IN /\ probes' = [probes EXCEPT ![p] =
            [pr EXCEPT !.updates[i].status = Done(err),
                       !.outcome.sent = IF err THEN pr.outcome.sent ELSE TRUE,
                       !.notifs = IF ~err /\ u.alert THEN Append(pr.notifs, msg)
                                  ELSE pr.notifs]]
     /\ registry' = IF err THEN registry
                    ELSE [registry EXCEPT ![u.data.id].state = u.data.state,
                                          ![u.data.id].lastChecked = u.data.lastChecked]
     /\ UNCHANGED <<getAllPending, logs, archives, rot, uncaught, alive, cycle, rcycle, now>>

\* the callback of _checkCtrl.sendNotification (lines 114-119)
NotifyCb(p, i, err) ==
  /\ probes' = [probes EXCEPT ![p].notifs[i].status = Done(err)]
  /\ UNCHANGED <<registry, getAllPending, logs, archives, rot, uncaught, alive,
                 cycle, rcycle, now>>

PendingAt(calls) == {i \in DOMAIN calls : calls[i].status = "pending"}

\* the _checkCtrl calls whose callback has not run yet
CheckCtrlPending ==
  {<<"getAll", g[1], g[2], 0>> : g \in getAllPending}
  \cup UNION {{<<"update", p[1], p[2], i>> : i \in PendingAt(probes[p].updates)} :
                p \in DOMAIN probes}
  \cup UNION {{<<"sendNotification", p[1], p[2], i>> : i \in PendingAt(probes[p].notifs)} :
                p \in DOMAIN probes}

\* the event loop runs the callback of one completed _checkCtrl call
CheckCtrlCallback ==
  /\ alive
  /\ \E c \in CheckCtrlPending : \E err \in BOOLEAN :
       CASE c[1] = "getAll" -> GetAllCb(c[2], c[3], err)
         [] c[1] = "update" -> UpdateCb(<<c[2], c[3]>>, c[4], err)
         [] c[1] = "sendNotification" -> NotifyCb(<<c[2], c[3]>>, c[4], err)

\* ------------------------------------------------------ _logs callbacks
\* the callback of _logs.append (lines 142-148)
AppendCb(p, i, err) ==
  LET a == probes[p].appends[i]
  IN /\ probes' = [probes EXCEPT ![p].appends[i].status = Done(err)]
     /\ logs' = IF err THEN logs
                ELSE [s \in DOMAIN logs \cup {a.file} |->
                        IF s = a.file
                        THEN (IF s \in DOMAIN logs THEN logs[s] ELSE <<>>) \o <<a.str>>
                        ELSE logs[s]]
     /\ UNCHANGED <<registry, getAllPending, archives, rot, uncaught, alive,
                    cycle, rcycle, now>>

\* line 162: whether the listing is rotated or reported as nothing to rotate
HasLogs(err, listing) == ~err /\ Cardinality(listing) > 0

\* the callback of _logs.list (lines 161-185) of rotation n: one compress call
\* per listed file; none, and list "failed", when the listing failed or is empty
ListCb(n, err, ext) ==
  LET listing == {FileName(s, ext) : s \in DOMAIN logs}
      logIds == {replace(logName, ".log")[1] : logName \in listing}
      go == HasLogs(err, listing)
  IN /\ rot' = [rot EXCEPT ![n] =
            [@ EXCEPT !.list = IF go THEN "ok" ELSE "failed",
                      !.names = IF go THEN logIds ELSE {},
                      !.time = now,
                      !.compress = [s \in Streams |->
                                      IF go /\ s \in logIds THEN "pending" ELSE "none"]]]
     /\ UNCHANGED <<registry, getAllPending, probes, logs, archives, uncaught, alive,
                    cycle, rcycle, now>>

\* lines 168-179: whether the callback of _logs.compress goes on to truncate
TruncateAfter_always(err) == TRUE

TruncateAfter_inverted(err) == err

TruncateAfter(err) == ~err

\* the callback of _logs.compress for stream s in rotation n (lines 167-180)
CompressCb(n, s, err) ==
  /\ rot' = [rot EXCEPT ![n].compress[s] = Done(err),
                        ![n].truncate[s] = IF TruncateAfter(err) THEN "pending" ELSE "none"]
  /\ archives' = IF err THEN archives ELSE archives \cup {<<s, rot[n].time, logs[s]>>}
  /\ UNCHANGED <<registry, getAllPending, probes, logs, uncaught, alive, cycle, rcycle, now>>

\* the callback of _logs.truncate (lines 170-176)
TruncateCb(n, s, err) ==
  /\ rot' = [rot EXCEPT ![n].truncate[s] = Done(err)]
  /\ logs' = IF err THEN logs ELSE [logs EXCEPT ![s] = <<>>]
  /\ UNCHANGED <<registry, getAllPending, probes, archives, uncaught, alive,
                 cycle, rcycle, now>>

\* the _logs calls whose callback has not run yet
LogsPending ==
  {<<"list", n, "", 0>> : n \in {m \in DOMAIN rot : rot[m].list = "pending"}}
  \cup UNION {{<<"compress", n, s, 0>> : s \in {x \in Streams : rot[n].compress[x] = "pending"}} :
                n \in DOMAIN rot}
  \cup UNION {{<<"truncate", n, s, 0>> : s \in {x \in Streams : rot[n].truncate[x] = "pending"}} :
                n \in DOMAIN rot}
  \cup UNION {{<<"append", p[1], p[2], i>> : i \in PendingAt(probes[p].appends)} :
                p \in DOMAIN probes}

\* the event loop runs the callback of one completed _logs call
LogsCallback ==
  /\ alive
  /\ \E c \in LogsPending : \E err \in BOOLEAN :
       CASE c[1] = "list" -> \E ext \in BOOLEAN : ListCb(c[2], err, ext)
         [] c[1] = "compress" -> CompressCb(c[2], c[3], err)
         [] c[1] = "truncate" -> TruncateCb(c[2], c[3], err)
         [] c[1] = "append" -> AppendCb(<<c[2], c[3]>>, c[4], err)

\* ------------------------------------------------------- specification
\* the check cycle: scheduler, probe executor, outcome processor
NextChecks ==
  \/ Tick
  \/ CheckCtrlCallback
  \/ ResponseCallback
  \/ ErrorCallback
  \/ TimeoutCallback

\* the rotation cycle and the log store
NextRotate ==
  \/ RotateTick
  \/ LogsCallback

Next == NextChecks \/ NextRotate

Spec == Init /\ [][Next]_vars

SpecChecks == InitChecks /\ [][NextChecks]_vars

\* the callbacks of the check evaluations and of the log store
NextAudit ==
  \/ CheckCtrlCallback
  \/ ResponseCallback
  \/ ErrorCallback
  \/ TimeoutCallback
  \/ LogsCallback

\* the rotation cycles in the process that also runs the check evaluations
\* workers.init started: an uncaught exception of an evaluation ends the
\* rotation timer too
NextRotation ==
  \/ RotateTick
  \/ NextAudit

SpecRotate == InitRotate /\ [][NextRotation]_vars

\* --------------------------------------------- processCheckOutcome alone
\* workers.processCheckOutcome is exported: a caller may hand it any check and
\* any outcome, marked sent or not.
ProcessChecks ==
  { [id |-> "c1", state |-> st, lastChecked |-> lc, successCodes |-> sc,
     userPhone |-> <<"phone", "c1">>] :
      st \in {"unset", "up", "down"}, lc \in {0, 1},
      sc \in {<<200>>, <<200, 201>>, <<500>>} }

ProcessOutcomes ==
  [error : {ErrNone} \cup ErrKinds, responseCode : {NoCode, 200, 201, 500},
   sent : BOOLEAN]

InitProcess ==
  /\ registry = [c \in Checks |-> CheckData(c, TRUE, "unset", 0)]
  /\ logs = <<>>
  /\ archives = {}
  /\ cycle = 0
  /\ getAllPending = {}
  /\ \E check \in ProcessChecks : \E outcome \in ProcessOutcomes :
       probes = [p \in {<<0, "c1">>} |-> [NewProbe(check) EXCEPT !.outcome = outcome]]
  /\ rcycle = 0
  /\ rot = <<>>
  /\ uncaught = NoUncaught
  /\ alive = TRUE
  /\ now = 2

\* one direct call processCheckOutcome(check, outcome) on the objects of p
CallProcess ==
  \E p \in DOMAIN probes :
    LET pr == probes[p]
        r == processCheckOutcome(pr.check, pr.outcome, now)
    IN /\ pr.calls < MaxCalls
       /\ probes' = [probes EXCEPT ![p] =
              [pr EXCEPT !.check = r.check,
                         !.calls = pr.calls + 1,
                         !.threw = r.threw, !.returned = r.returned,
                         !.built = pr.built \o r.built,
                         !.appends = pr.appends \o r.appends,
                         !.updates = pr.updates \o r.updates]]
       /\ UNCHANGED <<registry, getAllPending, logs, archives, rot, uncaught, alive,
                      cycle, rcycle, now>>

SpecProcess == InitProcess /\ [][CallProcess]_vars

\* ================================================================ claims
Elems(arr) == {arr[k] : k \in DOMAIN arr}

\* C1: once the transport has delivered at least one of the response, error
\* and timeout events for a request, the side-effecting body of
\* processCheckOutcome has run exactly once for it: one log append and one
\* persistence write, however many events were delivered.
C1_OutcomeReportedOnce ==
  \A p \in DOMAIN probes :
    probes[p].delivered # {} =>
      /\ Len(probes[p].appends) = 1
      /\ Len(probes[p].updates) = 1

\* C2: every call of processCheckOutcome on an outcome not marked sent makes
\* exactly one _logs.append call, on the stream named by the check id, at most
\* one _checkCtrl.update call and at most one sendNotification call.
C2_OneAppendPerCall ==
  \A p \in DOMAIN probes :
    ~probes[p].outcome.sent =>
      /\ Len(probes[p].appends) = probes[p].calls
      /\ \A i \in DOMAIN probes[p].appends : probes[p].appends[i].file = p[2]
      /\ Len(probes[p].updates) <= probes[p].calls
      /\ Len(probes[p].notifs) <= probes[p].calls

\* C3: for a check read from the registry with lastChecked unset, the probe's
\* pipeline sends no notification and neither builds nor appends a log record
\* whose alert is true, whatever transport events arrive.
C3_FirstEvaluationNeverAlerts ==
  \A p \in DOMAIN probes :
    ~Truthy(probes[p].read.lastChecked) =>
      /\ \A i \in DOMAIN probes[p].built : probes[p].built[i].alert # <<TRUE>>
      /\ \A i \in DOMAIN probes[p].appends :
           "alert" \in DOMAIN probes[p].appends[i].str =>
             ~probes[p].appends[i].str.alert
      /\ probes[p].notifs = <<>>

\* a never-evaluated check has been evaluated twice in one pipeline, its
\* computed state changing from up to down
C3_Witness ==
  \E p \in DOMAIN probes :
    /\ ~Truthy(probes[p].read.lastChecked)
    /\ Len(probes[p].built) = 2
    /\ probes[p].built[1].state = "up"
    /\ probes[p].built[2].state = "down"

\* C4: an evaluation raises an alert exactly when the check has a prior
\* evaluation and its previous state differs from the computed one; an
\* evaluation that raised one goes on to its persistence write, and once that
\* write has succeeded exactly one notification, addressed to the check's
\* userPhone and announcing the new state, has been sent.
C4_AlertOnTransitionNotifies ==
  \A p \in DOMAIN probes : \A i \in DOMAIN probes[p].built :
    LET b == probes[p].built[i]
    IN /\ b.alert = <<TRUE>> <=> (b.check.lastChecked # 0 /\ b.check.state # b.state)
       /\ b.alert = <<TRUE>> =>
            /\ i \in DOMAIN probes[p].updates
            /\ probes[p].updates[i].status = "ok" =>
                 Cardinality({j \in DOMAIN probes[p].notifs :
                                /\ probes[p].notifs[j].to = b.check.userPhone
                                /\ probes[p].notifs[j].state = b.state}) = 1

\* C5: the computed state is up exactly when the outcome carries no error and
\* its response code is one of the check's success codes, and down otherwise.
C5_StateUpIffSuccessCode ==
  \A p \in DOMAIN probes : \A i \in DOMAIN probes[p].built :
    LET b == probes[p].built[i]
        ok == /\ b.outcome.error = ErrNone
              /\ b.outcome.responseCode # NoCode
              /\ b.outcome.responseCode \in Elems(b.check.successCodes)
    IN /\ b.state \in {"up", "down"}
       /\ b.state = "up" <=> ok

\* an outcome that carries a timeout error and a late 200 response, computed down
C5_Witness ==
  \E p \in DOMAIN probes :
    /\ Len(probes[p].built) >= 1
    /\ probes[p].built[1].outcome.error = "timeout"
    /\ probes[p].built[1].outcome.responseCode = 200
    /\ 200 \in Elems(probes[p].built[1].check.successCodes)
    /\ probes[p].built[1].state = "down"

\* C7: in every rotation cycle, truncate has been called on a stream only if
\* the compress of that stream in the same cycle reported success.
C7_TruncateOnlyAfterCompress ==
  \A n \in DOMAIN rot : \A s \in Streams :
    rot[n].truncate[s] # "none" => rot[n].compress[s] = "ok"

\* in one cycle a compression failed and another stream was truncated
C7_Witness ==
  \E n \in DOMAIN rot : \E s \in Streams : \E t \in Streams :
    /\ rot[n].compress[s] = "failed"
    /\ rot[n].truncate[s] = "none"
    /\ rot[n].truncate[t] = "ok"

\* C8: once the listing of a cycle has returned, every active stream has its
\* own compress call, and every stream whose compress succeeded has its
\* truncate call, whatever happened to the other streams.
C8_EveryStreamProcessed ==
  \A n \in DOMAIN rot :
    /\ rot[n].list = "ok" =>
         /\ rot[n].names = DOMAIN logs
         /\ \A s \in rot[n].names : rot[n].compress[s] # "none"
    /\ \A s \in Streams : rot[n].compress[s] = "ok" => rot[n].truncate[s] # "none"

\* two streams in one cycle: the compression of one failed, the truncation of
\* another failed, and a stream was still compressed after a failure
C8_Witness ==
  \E n \in DOMAIN rot : \E s \in Streams : \E t \in Streams :
    /\ s # t
    /\ rot[n].compress[s] = "failed"
    /\ rot[n].compress[t] = "ok"
    /\ rot[n].truncate[t] = "failed"

\* C9: processCheckOutcome called on an outcome already marked sent does
\* nothing: no log record built, no append, no write, no notification, the
\* check not mutated, nothing thrown, and the outcome returned as it was given,
\* however often it is called.
C9_SentIsNoOp ==
  \A p \in DOMAIN probes :
    (probes[p].outcome.sent /\ probes[p].calls >= 1) =>
      /\ probes[p].built = <<>>
      /\ probes[p].appends = <<>>
      /\ probes[p].updates = <<>>
      /\ probes[p].notifs = <<>>
      /\ probes[p].check = probes[p].read
      /\ probes[p].threw = ExcNone
      /\ probes[p].returned = <<probes[p].outcome>>

\* processCheckOutcome was called twice on an outcome marked sent
C9_Witness ==
  \E p \in DOMAIN probes : probes[p].outcome.sent /\ probes[p].calls = 2

\* C10: no callback registered by performCheck ends with an uncaught
\* exception.
C10_NoUncaughtException ==
  \A e \in Excs : uncaught[e] = 0

\* C11: every outcome handed to processCheckOutcome carries exactly one of an
\* error and a response code, whatever sequence of transport events the
\* request delivers.
C11_ErrorXorResponseCode ==
  \A p \in DOMAIN probes : \A i \in DOMAIN probes[p].built :
    LET o == probes[p].built[i].outcome
    IN (o.error # ErrNone) # (o.responseCode # NoCode)

\* C12: when only the timeout has fired for a request, the request is
\* complete: its outcome is the timeout marker, the computed state is down and
\* a log record carrying the timeout marker has been handed to _logs.append.
C12_TimeoutIsLogged ==
  \A p \in DOMAIN probes :
    probes[p].delivered = {"timeout"} =>
      /\ probes[p].outcome.error = "timeout"
      /\ Len(probes[p].built) = 1
      /\ probes[p].built[1].state = "down"
      /\ Len(probes[p].appends) = 1
      /\ probes[p].appends[1].str.outcome.error = ErrorJSON("timeout")

\* C13: a probe is dispatched only for a well-formed check, and while the
\* dispatch of a check is still outstanding, or the request of a check has not
\* completed yet, nothing that happened to another check has stopped the
\* workers from carrying it out.
C13_ChecksIndependent ==
  /\ \A p \in DOMAIN probes : isValid(registry[p[2]])
  /\ (getAllPending # {} \/ \E p \in DOMAIN probes : probes[p].delivered = {})
       => alive

\* C15 as stated: the log stage of an evaluation starts only after the
\* persistence write of that evaluation has completed.
C15_PersistBeforeLog ==
  \A p \in DOMAIN probes : \A i \in DOMAIN probes[p].built :
    /\ i \in DOMAIN probes[p].updates
    /\ probes[p].updates[i].status # "pending"

\* C15, amended: the order is probe, process, log, persist, notify. The
\* persistence write of an evaluation is issued only after its call of
\* workers.log has returned, so an evaluation whose log call threw has issued
\* no write, and a notification is issued only after a write has succeeded.
C15_LogBeforePersist ==
  \A p \in DOMAIN probes :
    /\ Len(probes[p].updates) <= Len(probes[p].built)
    /\ probes[p].threw # ExcNone => Len(probes[p].updates) < Len(probes[p].built)
    /\ probes[p].notifs # <<>> =>
         \E i \in DOMAIN probes[p].updates : probes[p].updates[i].status = "ok"

\* an evaluation has reached its log call, which threw, and no write was issued
C15_Witness ==
  \E p \in DOMAIN probes :
    /\ Len(probes[p].built) >= 1
    /\ probes[p].threw = "ReferenceError"
    /\ probes[p].updates = <<>>

\* C18: the check stored in a log record is the check as it was before the
\* evaluation that built the record (its state and lastChecked are the old
\* ones, not the computed state and the new timestamp), and a record, once
\* built or handed to _logs.append, never changes.
C18_RecordKeepsOldCheck ==
  [][\A p \in DOMAIN probes :
       /\ \A i \in DOMAIN probes[p].built :
            probes'[p].built[i] = probes[p].built[i]
       /\ \A i \in DOMAIN probes[p].appends :
            probes'[p].appends[i].str = probes[p].appends[i].str
       /\ \A i \in DOMAIN probes'[p].built \ DOMAIN probes[p].built :
            probes'[p].built[i].check = probes[p].check]_vars

\* a record was built for a check that was up since time 1, by a later
\* evaluation that computed down
C18_Witness ==
  \E p \in DOMAIN probes :
    /\ Len(probes[p].built) >= 1
    /\ probes[p].built[1].check.state = "up"
    /\ probes[p].built[1].check.lastChecked = 1
    /\ probes[p].built[1].state = "down"
    /\ probes[p].built[1].time > 1

\* C19: a rotation cycle whose listing returned no active stream makes no
\* compress and no truncate call, takes the branch that reports that there is
\* nothing to rotate, and leaves the workers running.
C19_EmptyRotationIsNoOp ==
  \A n \in DOMAIN rot :
    (rot[n].list # "pending" /\ DOMAIN logs = {}) =>
      /\ rot[n].list = "failed"
      /\ \A s \in Streams : rot[n].compress[s] = "none" /\ rot[n].truncate[s] = "none"
      /\ alive

=============================================================================
